---- MODULE Spec2Model ----
(***************************************************************************)
(* The C boundary of py_cavalier_contours (src/src/lib.rs): polyline       *)
(* handles and intersection results on a heap, the status-returning entry  *)
(* points wrapped by ffi_catch_unwind, and the release of a result.        *)
(*                                                                         *)
(* The polyline algorithms live in the cavalier_contours crate.  Their     *)
(* results enter each entry point as an outcome `c` (a value, None/Err, or *)
(* a panic) drawn from the outcome sets defined in the collaborator        *)
(* section; what the entry point does with the outcome is lib.rs.          *)
(***************************************************************************)
EXTENDS Integers, Sequences, FiniteSets, TLC

VARIABLES heap,    \* address -> free | pline handle | intersects result
          pre,     \* history: the heap before the last call
          origin,  \* history: for a live result, the crossings in the caller's terms
          call,    \* the last call: entry point, arguments, status, collaborator outcome
          out      \* the caller's output locations written by the last call, in order

vars == <<heap, pre, origin, call, out>>

(***************************************************************************)
(* Bounds                                                                  *)
(***************************************************************************)
MaxAddr == 3      \* heap addresses 1..MaxAddr
MaxVerts == 2     \* vertices of a polyline
MaxRecs == 2      \* explicitly listed records of one intersects result

Null == 0
Addrs == 1..MaxAddr

(***************************************************************************)
(* usize and u32.  A usize is kept as its upper and lower 32-bit halves,   *)
(* so that `as u32` and `as usize` are what the casts do.                  *)
(***************************************************************************)
Usize(hi, lo) == [hi |-> hi, lo |-> lo]
AsU32(u) == u.lo
AsUsize(i) == [hi |-> 0, lo |-> i]
UsizeGe(a, b) == a.hi > b.hi \/ (a.hi = b.hi /\ a.lo >= b.lo)
TwoPow32 == Usize(1, 0)   \* the least usize that does not fit a u32

(***************************************************************************)
(* Vec<T>: its length, its first elements, and the element that fills the  *)
(* rest when the length exceeds the listed ones.                           *)
(***************************************************************************)
Vec(len, head, fill) == [len |-> len, head |-> head, fill |-> fill]
VecLen(v) == v.len
VecAt(v, idx) == IF idx.hi = 0 /\ idx.lo < Len(v.head) THEN v.head[idx.lo + 1] ELSE v.fill

(***************************************************************************)
(* Heap cells                                                              *)
(***************************************************************************)
FreeCell == [kind |-> "free"]
cavc_pline(p) == [kind |-> "pline", pl |-> p]
cavc_intersects_result(b, o) == [kind |-> "result", basic |-> b, overlapping |-> o]

IsPline(h, a) == a \in Addrs /\ h[a].kind = "pline"
IsResult(h, a) == a \in Addrs /\ h[a].kind = "result"
Live(h) == {a \in Addrs : h[a].kind # "free"}

(***************************************************************************)
(* The collaborator (crate cavalier_contours): polyline values and the     *)
(* outcomes of the operations the boundary calls.                          *)
(***************************************************************************)
Vertex(x, y, bulge) == [x |-> x, y |-> y, bulge |-> bulge]
Vector2(x, y) == [x |-> x, y |-> y]
Polyline(verts, closed) == [verts |-> verts, closed |-> closed]
Pos(v) == Vector2(v.x, v.y)

EmptyPline == Polyline(<< >>, FALSE)
SinglePline == Polyline(<<Vertex(0, 0, 0)>>, FALSE)
LinePline == Polyline(<<Vertex(0, 0, 0), Vertex(2, 0, 0)>>, FALSE)
LoopPline == Polyline(<<Vertex(0, 0, 1), Vertex(2, 0, 1)>>, TRUE)
Samples == <<EmptyPline, SinglePline, LinePline, LoopPline>>

Points == {Vector2(2, 0), Vector2(1, 1)}
Targets == {0, 2, 40}

None == [tag |-> "None"]
Some(v) == [tag |-> "Some", val |-> v]
Panic == [tag |-> "Panic"]
Ok(v) == [tag |-> "Ok", val |-> v]
Err == [tag |-> "Err"]
NotCalled == [tag |-> "NotCalled"]

Abs(n) == IF n < 0 THEN -n ELSE n

vertex_count(p) == Len(p.verts)

segment_count(p) ==
  IF vertex_count(p) < 2 THEN 0
  ELSE IF p.closed THEN vertex_count(p) ELSE vertex_count(p) - 1

\* the vertex that ends the segment starting at vertex i (1-based)
NextIndex(p, i) == IF i = vertex_count(p) THEN 1 ELSE i + 1

\* a length measure of one segment: chord length along the axes, longer for an arc
SegLength(v1, v2) == Abs(v2.x - v1.x) + Abs(v2.y - v1.y) + Abs(v1.bulge)

RECURSIVE LengthUpTo(_, _)
LengthUpTo(p, k) ==
  IF k = 0 THEN 0
  ELSE LengthUpTo(p, k - 1) + SegLength(p.verts[k], p.verts[NextIndex(p, k)])

path_length(p) == LengthUpTo(p, segment_count(p))

\* the first segment (0-based) on which the running length reaches target
SegmentAt(p, target) ==
  IF segment_count(p) = 0 THEN 0
  ELSE CHOOSE i \in 0..(segment_count(p) - 1) :
         /\ LengthUpTo(p, i + 1) >= target
         /\ \A j \in 0..(i - 1) : LengthUpTo(p, j + 1) < target

HasArcs(p) == \E i \in DOMAIN p.verts : p.verts[i].bulge # 0

OrientationOutcomes(p) ==
  IF ~p.closed THEN {Some("Open")} ELSE {Some("Clockwise"), Some("CounterClockwise")}

\* None or a point of the polyline (here: a segment's start vertex) with its distance
ClosestPointOutcomes(p, q) ==
  IF vertex_count(p) = 0 THEN {None}
  ELSE {None} \cup
       { Some([seg_start_index |-> AsUsize(i), seg_point |-> Pos(p.verts[i + 1]),
               distance |-> Abs(q.x - p.verts[i + 1].x) + Abs(q.y - p.verts[i + 1].y)]) :
           i \in 0..(IF segment_count(p) = 0 THEN 0 ELSE segment_count(p) - 1) }

\* Err when the polyline is empty or the target exceeds its total length
FindPointOutcomes(p, target) ==
  IF vertex_count(p) = 0 \/ target > path_length(p) THEN {Err}
  ELSE { Ok([idx |-> AsUsize(SegmentAt(p, target)),
               point |-> Pos(p.verts[SegmentAt(p, target) + 1])]) }

\* None when there is nothing to change, the linearized polyline otherwise
arcs_to_approx_lines(p) ==
  IF ~HasArcs(p) THEN None
  ELSE Some(Polyline([i \in DOMAIN p.verts |-> [p.verts[i] EXCEPT !.bulge = 0]],
                     p.closed))

create_from(p) == Polyline([i \in DOMAIN p.verts |-> p.verts[i]], p.closed)

\* the vertices of s starting with the one at 0-based index k
Cycle(s, k) == [i \in 1..Len(s) |-> s[((k + i - 1) % Len(s)) + 1]]

Rotated(p, k, point) ==
  LET nxt == (k + 1) % vertex_count(p)
  IN  IF Pos(p.verts[k + 1]) = point THEN Polyline(Cycle(p.verts, k), TRUE)
      ELSE IF Pos(p.verts[nxt + 1]) = point THEN Polyline(Cycle(p.verts, nxt), TRUE)
      ELSE Polyline(<<Vertex(point.x, point.y, p.verts[k + 1].bulge)>>
                      \o Cycle(p.verts, nxt), TRUE)

\* None for an open polyline, an index out of range or a point off the segment
RotateStartOutcomes(p, start_index, point) ==
  IF ~p.closed \/ vertex_count(p) < 2 \/ UsizeGe(start_index, AsUsize(vertex_count(p)))
  THEN {None}
  ELSE {None, Some(Rotated(p, start_index.lo, point))}

(***************************************************************************)
(* Crossings of two polylines, named by the caller's argument positions:   *)
(* onA is the segment on the caller's first polyline, onB on the second.   *)
(* The k-th crossing found is Crossing(sA, sB, k).                         *)
(***************************************************************************)
Crossing(sA, sB, k) ==
  [onA |-> AsUsize((k - 1) % sA), onB |-> AsUsize(k % sB),
   p1 |-> Vector2(k, k + 1), p2 |-> Vector2(k + 2, k + 3)]

Overlap(sA, sB, k) ==
  [onA |-> AsUsize(k % sA), onB |-> AsUsize((k - 1) % sB),
   p1 |-> Vector2(k + 4, k + 5), p2 |-> Vector2(k + 6, k + 7)]

\* The lengths a sequence of crossings is given; the listed records are its first
\* ones.  The number of crossings is not derived from the vertices listed in a
\* polyline value: two polylines of 2^16 segments each can cross 2^32 times.
Lens == {AsUsize(n) : n \in 0..MaxRecs} \cup {TwoPow32}
LenPairs == {lens \in Lens \X Lens : lens[1].lo + lens[2].lo <= MaxRecs
                                        /\ lens[1].hi + lens[2].hi <= 1}

Crossings(sA, sB, len) ==
  Vec(len, [k \in 1..len.lo |-> Crossing(sA, sB, k)], Crossing(sA, sB, 0))

Overlaps(sA, sB, len) ==
  Vec(len, [k \in 1..len.lo |-> Overlap(sA, sB, k)], Overlap(sA, sB, 0))

Truths(pA, pB) ==
  IF segment_count(pA) = 0 \/ segment_count(pB) = 0
  THEN {[basic |-> Crossings(1, 1, AsUsize(0)), overlapping |-> Overlaps(1, 1, AsUsize(0))]}
  ELSE { [basic |-> Crossings(segment_count(pA), segment_count(pB), lens[1]),
          overlapping |-> Overlaps(segment_count(pA), segment_count(pB), lens[2])] :
           lens \in LenPairs }

\* self.find_intersects_opt(other): start_index1 is on self, start_index2 on other
PlineBasicIntersect(selfIsA, t) ==
  [start_index1 |-> IF selfIsA THEN t.onA ELSE t.onB,
   start_index2 |-> IF selfIsA THEN t.onB ELSE t.onA,
   point |-> t.p1]

PlineOverlappingIntersect(selfIsA, t) ==
  [start_index1 |-> IF selfIsA THEN t.onA ELSE t.onB,
   start_index2 |-> IF selfIsA THEN t.onB ELSE t.onA,
   point1 |-> t.p1, point2 |-> t.p2]

find_intersects_opt(selfIsA, truth) ==
  [basic_intersects |->
     Vec(truth.basic.len,
         [k \in DOMAIN truth.basic.head |-> PlineBasicIntersect(selfIsA, truth.basic.head[k])],
         PlineBasicIntersect(selfIsA, truth.basic.fill)),
   overlapping_intersects |->
     Vec(truth.overlapping.len,
         [k \in DOMAIN truth.overlapping.head |->
            PlineOverlappingIntersect(selfIsA, truth.overlapping.head[k])],
         PlineOverlappingIntersect(selfIsA, truth.overlapping.fill))]

(***************************************************************************)
(* What one run of an entry point's body leaves behind: whether it         *)
(* panicked, the status it returned (<<s>>; << >> for a function without a *)
(* return value), the outputs it wrote in order as <<location, value>>,    *)
(* the heap, and the collaborator outcome it consumed.                     *)
(***************************************************************************)
NoWrites == << >>
Return(status, writes, h, c) ==
  [fault |-> FALSE, ret |-> <<status>>, out |-> writes, heap |-> h, collab |-> c]
Unwind(writes, h, c) ==
  [fault |-> TRUE, ret |-> << >>, out |-> writes, heap |-> h, collab |-> c]

\* faulty variant: the panic is not turned into the sentinel
ffi_no_barrier(body) == body

ffi_catch_unwind(body) ==
  IF body.fault THEN [body EXCEPT !.ret = <<-1>>] ELSE body

OrientationCode(o) ==
  CASE o = "Open" -> 0
    [] o = "Clockwise" -> 1
    [] o = "CounterClockwise" -> 2

cavc_pline_orientation(h, pline, c) ==
  ffi_catch_unwind(
    IF pline = Null THEN Return(1, NoWrites, h, NotCalled)
    ELSE IF c.tag = "Panic" THEN Unwind(NoWrites, h, c)
    ELSE Return(0, << <<"orientation", OrientationCode(c.val)>> >>, h, c))

\* faulty variant: the zero-segment check is missing
closest_point_unchecked(h, pline, c) ==
  ffi_catch_unwind(
    IF pline = Null THEN Return(1, NoWrites, h, NotCalled)
    ELSE IF c.tag = "Panic" THEN Unwind(NoWrites, h, c)
    ELSE IF c.tag = "Some"
         THEN Return(0, << <<"seg_start_index", AsU32(c.val.seg_start_index)>>,
                           <<"closest_x", c.val.seg_point.x>>,
                           <<"closest_y", c.val.seg_point.y>>,
                           <<"distance", c.val.distance>> >>, h, c)
         ELSE Return(2, NoWrites, h, c))

cavc_pline_closest_point(h, pline, c) ==
  ffi_catch_unwind(
    IF pline = Null THEN Return(1, NoWrites, h, NotCalled)
    ELSE IF c.tag = "Panic" THEN Unwind(NoWrites, h, c)
    ELSE IF segment_count(h[pline].pl) = 0 THEN Return(2, NoWrites, h, NotCalled)
    ELSE IF c.tag = "Some"
         THEN Return(0, << <<"seg_start_index", AsU32(c.val.seg_start_index)>>,
                           <<"closest_x", c.val.seg_point.x>>,
                           <<"closest_y", c.val.seg_point.y>>,
                           <<"distance", c.val.distance>> >>, h, c)
         ELSE Return(2, NoWrites, h, c))

\* faulty variant: the segment index is written before the result is matched
find_point_early_write(h, pline, c) ==
  ffi_catch_unwind(
    IF pline = Null THEN Return(1, NoWrites, h, NotCalled)
    ELSE IF c.tag = "Panic" THEN Unwind(NoWrites, h, c)
    ELSE IF c.tag = "Ok"
         THEN Return(0, << <<"seg_index", AsU32(c.val.idx)>>,
                           <<"point_x", c.val.point.x>>,
                           <<"point_y", c.val.point.y>> >>, h, c)
         ELSE Return(2, << <<"seg_index", 0>> >>, h, c))

cavc_pline_find_point_at_path_length(h, pline, c) ==
  ffi_catch_unwind(
    IF pline = Null THEN Return(1, NoWrites, h, NotCalled)
    ELSE IF c.tag = "Panic" THEN Unwind(NoWrites, h, c)
    ELSE IF c.tag = "Ok"
         THEN Return(0, << <<"seg_index", AsU32(c.val.idx)>>,
                           <<"point_x", c.val.point.x>>,
                           <<"point_y", c.val.point.y>> >>, h, c)
         ELSE Return(2, NoWrites, h, c))

\* faulty variant: with nothing to change the input handle itself is handed back
arcs_to_approx_lines_reuse(h, pline, a, c) ==
  ffi_catch_unwind(
    IF pline = Null THEN Return(1, NoWrites, h, NotCalled)
    ELSE IF c.tag = "Panic" THEN Unwind(NoWrites, h, c)
    ELSE IF c.tag = "Some"
         THEN Return(0, << <<"result", a>> >>, [h EXCEPT ![a] = cavc_pline(c.val)], c)
         ELSE Return(0, << <<"result", pline>> >>, h, c))

\* `a` is the address Box::new returns
cavc_pline_arcs_to_approx_lines(h, pline, a, c) ==
  ffi_catch_unwind(
    IF pline = Null THEN Return(1, NoWrites, h, NotCalled)
    ELSE IF c.tag = "Panic" THEN Unwind(NoWrites, h, c)
    ELSE LET p == h[pline].pl
             linearized == IF c.tag = "Some" THEN c.val ELSE create_from(p)
         IN  Return(0, << <<"result", a>> >>,
                    [h EXCEPT ![a] = cavc_pline(linearized)], c))

\* faulty variant: the polyline is taken out of the handle before the rotation is known to succeed
rotate_start_take(h, pline, c) ==
  ffi_catch_unwind(
    IF pline = Null THEN Return(1, NoWrites, h, NotCalled)
    ELSE IF c.tag = "Panic" THEN Unwind(NoWrites, h, c)
    ELSE IF c.tag = "Some"
         THEN Return(0, NoWrites, [h EXCEPT ![pline] = cavc_pline(c.val)], c)
         ELSE Return(2, NoWrites,
                     [h EXCEPT ![pline] = cavc_pline(Polyline(<< >>, h[pline].pl.closed))], c))

cavc_pline_rotate_start(h, pline, c) ==
  ffi_catch_unwind(
    IF pline = Null THEN Return(1, NoWrites, h, NotCalled)
    ELSE IF c.tag = "Panic" THEN Unwind(NoWrites, h, c)
    ELSE IF c.tag = "Some"
         THEN Return(0, NoWrites, [h EXCEPT ![pline] = cavc_pline(c.val)], c)
         ELSE Return(2, NoWrites, h, c))

\* faulty variant: the collaborator is called on the second polyline with the first as argument
find_intersects_swapped(h, pline1, pline2, a, c) ==
  ffi_catch_unwind(
    IF pline1 = Null \/ pline2 = Null THEN Return(1, NoWrites, h, NotCalled)
    ELSE IF c.tag = "Panic" THEN Unwind(NoWrites, h, c)
    ELSE LET collection == find_intersects_opt(FALSE, c.val)
         IN  Return(0, << <<"result", a>> >>,
                    [h EXCEPT ![a] = cavc_intersects_result(
                                       collection.basic_intersects,
                                       collection.overlapping_intersects)], c))

\* faulty variant: only a call with both handles null is refused
find_intersects_both_null(h, pline1, pline2, a, c) ==
  ffi_catch_unwind(
    IF pline1 = Null /\ pline2 = Null THEN Return(1, NoWrites, h, NotCalled)
    ELSE IF pline1 = Null \/ pline2 = Null THEN Return(2, NoWrites, h, NotCalled)
    ELSE IF c.tag = "Panic" THEN Unwind(NoWrites, h, c)
    ELSE LET collection == find_intersects_opt(TRUE, c.val)
         IN  Return(0, << <<"result", a>> >>,
                    [h EXCEPT ![a] = cavc_intersects_result(
                                       collection.basic_intersects,
                                       collection.overlapping_intersects)], c))

\* c is Panic or Some(truth): the crossings the collaborator will find
cavc_pline_find_intersects(h, pline1, pline2, a, c) ==
  ffi_catch_unwind(
    IF pline1 = Null \/ pline2 = Null THEN Return(1, NoWrites, h, NotCalled)
    ELSE IF c.tag = "Panic" THEN Unwind(NoWrites, h, c)
    ELSE LET collection == find_intersects_opt(TRUE, c.val)
         IN  Return(0, << <<"result", a>> >>,
                    [h EXCEPT ![a] = cavc_intersects_result(
                                       collection.basic_intersects,
                                       collection.overlapping_intersects)], c))

cavc_intersects_result_get_basic_count(h, result) ==
  ffi_catch_unwind(
    IF result = Null THEN Return(1, NoWrites, h, NotCalled)
    ELSE Return(0, << <<"count", AsU32(VecLen(h[result].basic))>> >>, h, NotCalled))

cavc_basic_intersect(b) ==
  [start_index1 |-> AsU32(b.start_index1), start_index2 |-> AsU32(b.start_index2),
   point_x |-> b.point.x, point_y |-> b.point.y]

cavc_intersects_result_get_basic(h, result, index) ==
  ffi_catch_unwind(
    IF result = Null THEN Return(1, NoWrites, h, NotCalled)
    ELSE LET r == h[result]
             idx == AsUsize(index)
         IN  IF UsizeGe(idx, VecLen(r.basic)) THEN Return(2, NoWrites, h, NotCalled)
             ELSE Return(0, << <<"intr", cavc_basic_intersect(VecAt(r.basic, idx))>> >>,
                         h, NotCalled))

\* faulty variant: counting drains the sequence
get_overlapping_count_drain(h, result) ==
  ffi_catch_unwind(
    IF result = Null THEN Return(1, NoWrites, h, NotCalled)
    ELSE Return(0, << <<"count", AsU32(VecLen(h[result].overlapping))>> >>,
                [h EXCEPT ![result].overlapping =
                   Vec(AsUsize(0), << >>, h[result].overlapping.fill)], NotCalled))

cavc_intersects_result_get_overlapping_count(h, result) ==
  ffi_catch_unwind(
    IF result = Null THEN Return(1, NoWrites, h, NotCalled)
    ELSE Return(0, << <<"count", AsU32(VecLen(h[result].overlapping))>> >>, h, NotCalled))

cavc_overlapping_intersect(o) ==
  [start_index1 |-> AsU32(o.start_index1), start_index2 |-> AsU32(o.start_index2),
   point1_x |-> o.point1.x, point1_y |-> o.point1.y,
   point2_x |-> o.point2.x, point2_y |-> o.point2.y]

cavc_intersects_result_get_overlapping(h, result, index) ==
  ffi_catch_unwind(
    IF result = Null THEN Return(1, NoWrites, h, NotCalled)
    ELSE LET r == h[result]
             idx == AsUsize(index)
         IN  IF UsizeGe(idx, VecLen(r.overlapping)) THEN Return(2, NoWrites, h, NotCalled)
             ELSE Return(0, << <<"intr",
                                 cavc_overlapping_intersect(VecAt(r.overlapping, idx))>> >>,
                         h, NotCalled))

\* faulty variant: the result is never released
result_f_leak(h, result) ==
  [fault |-> FALSE, ret |-> << >>, out |-> NoWrites, heap |-> h, collab |-> NotCalled]

\* no return value and no barrier
cavc_intersects_result_f(h, result) ==
  [fault |-> FALSE, ret |-> << >>, out |-> NoWrites,
   heap |-> IF result # Null THEN [h EXCEPT ![result] = FreeCell] ELSE h,
   collab |-> NotCalled]

(***************************************************************************)
(* The caller: handles it may pass, and one action per entry point.        *)
(***************************************************************************)
PlineArgs(h) == {Null} \cup {a \in Addrs : IsPline(h, a)}
ResultArgs(h) == {Null} \cup {a \in Addrs : IsResult(h, a)}
Indexes == 0..MaxRecs

\* where Box::new may place a new object; Null when the heap is full
FreshAddrs(h) ==
  IF \E a \in Addrs : h[a].kind = "free" THEN {a \in Addrs : h[a].kind = "free"} ELSE {Null}

\* the outcomes of a collaborator call on a handle; nothing is called on null
OutcomesOn(pline, outcomes) == IF pline = Null THEN {NotCalled} ELSE {Panic} \cup outcomes

NoOrigin == [tag |-> "None"]

Do(op, h1, h2, arg, b) ==
  /\ pre' = heap
  /\ heap' = b.heap
  /\ out' = b.out
  /\ call' = [op |-> op, h1 |-> h1, h2 |-> h2, arg |-> arg,
              ret |-> b.ret, fault |-> b.fault, collab |-> b.collab]

\* two polyline handles exist (which of the two addresses holds which is immaterial)
Init ==
  /\ \E i \in DOMAIN Samples, j \in DOMAIN Samples :
       /\ i <= j
       /\ heap = [a \in Addrs |-> IF a = 1 THEN cavc_pline(Samples[i])
                                   ELSE IF a = 2 THEN cavc_pline(Samples[j])
                                   ELSE FreeCell]
  /\ pre = heap
  /\ origin = [a \in Addrs |-> NoOrigin]
  /\ call = [op |-> "none", h1 |-> Null, h2 |-> Null, arg |-> 0,
             ret |-> << >>, fault |-> FALSE, collab |-> NotCalled]
  /\ out = NoWrites

Orientation ==
  \E pline \in PlineArgs(heap) :
    \E c \in OutcomesOn(pline, IF pline = Null THEN {} ELSE OrientationOutcomes(heap[pline].pl)) :
      /\ Do("orientation", pline, Null, 0, cavc_pline_orientation(heap, pline, c))
      /\ origin' = origin

ClosestPoint ==
  \E pline \in PlineArgs(heap), q \in Points :
    \E c \in OutcomesOn(pline, IF pline = Null THEN {}
                               ELSE ClosestPointOutcomes(heap[pline].pl, q)) :
      /\ Do("closest_point", pline, Null, 0,
            cavc_pline_closest_point(heap, pline, c))
      /\ origin' = origin

FindPointAtPathLength ==
  \E pline \in PlineArgs(heap), target_path_length \in Targets :
    \E c \in OutcomesOn(pline, IF pline = Null THEN {}
                               ELSE FindPointOutcomes(heap[pline].pl, target_path_length)) :
      /\ Do("find_point_at_path_length", pline, Null, target_path_length,
            cavc_pline_find_point_at_path_length(heap, pline, c))
      /\ origin' = origin

ArcsToApproxLines ==
  \E pline \in PlineArgs(heap), a \in FreshAddrs(heap) :
    \E c \in OutcomesOn(pline, IF pline = Null THEN {}
                               ELSE {arcs_to_approx_lines(heap[pline].pl)}) :
      /\ pline = Null \/ c.tag = "Panic" \/ a # Null
      /\ Do("arcs_to_approx_lines", pline, Null, 0,
            cavc_pline_arcs_to_approx_lines(heap, pline, a, c))
      /\ origin' = origin

RotateStart ==
  \E pline \in PlineArgs(heap), start_index \in 0..MaxVerts, point \in Points :
    \E c \in OutcomesOn(pline, IF pline = Null THEN {}
                               ELSE RotateStartOutcomes(heap[pline].pl,
                                                        AsUsize(start_index), point)) :
      /\ c.tag = "Some" => vertex_count(c.val) <= MaxVerts
      /\ Do("rotate_start", pline, Null, 0,
            cavc_pline_rotate_start(heap, pline, c))
      /\ origin' = origin

FindIntersects ==
  \E pline1 \in PlineArgs(heap), pline2 \in PlineArgs(heap), a \in FreshAddrs(heap) :
    \E c \in (IF pline1 = Null \/ pline2 = Null THEN {NotCalled}
              ELSE {Panic} \cup {Some(t) : t \in Truths(heap[pline1].pl, heap[pline2].pl)}) :
      LET b == cavc_pline_find_intersects(heap, pline1, pline2, a, c)
      IN  /\ c.tag = "Some" => a # Null
          /\ Do("find_intersects", pline1, pline2, 0, b)
          /\ origin' = IF c.tag = "Some" THEN [origin EXCEPT ![a] = c.val] ELSE origin

GetBasicCount ==
  \E result \in ResultArgs(heap) :
    /\ Do("get_basic_count", result, Null, 0,
          cavc_intersects_result_get_basic_count(heap, result))
    /\ origin' = origin

GetBasic ==
  \E result \in ResultArgs(heap), index \in Indexes :
    /\ Do("get_basic", result, Null, index,
          cavc_intersects_result_get_basic(heap, result, index))
    /\ origin' = origin

GetOverlappingCount ==
  \E result \in ResultArgs(heap) :
    /\ Do("get_overlapping_count", result, Null, 0,
          cavc_intersects_result_get_overlapping_count(heap, result))
    /\ origin' = origin

GetOverlapping ==
  \E result \in ResultArgs(heap), index \in Indexes :
    /\ Do("get_overlapping", result, Null, index,
          cavc_intersects_result_get_overlapping(heap, result, index))
    /\ origin' = origin

Release ==
  \E result \in ResultArgs(heap) :
    /\ Do("result_f", result, Null, 0, cavc_intersects_result_f(heap, result))
    /\ origin' = IF result # Null THEN [origin EXCEPT ![result] = NoOrigin] ELSE origin

Next ==
  \/ Orientation
  \/ ClosestPoint
  \/ FindPointAtPathLength
  \/ ArcsToApproxLines
  \/ RotateStart
  \/ FindIntersects
  \/ GetBasicCount
  \/ GetBasic
  \/ GetOverlappingCount
  \/ GetOverlapping
  \/ Release

Spec == Init /\ [][Next]_vars

(***************************************************************************)
(* Properties                                                              *)
(***************************************************************************)
StatusOps == {"orientation", "closest_point", "find_point_at_path_length",
              "arcs_to_approx_lines", "rotate_start", "find_intersects",
              "get_basic_count", "get_basic", "get_overlapping_count", "get_overlapping"}
CreateOps == {"arcs_to_approx_lines", "find_intersects"}

Written == {out[k][1] : k \in DOMAIN out}
NullCall == call.h1 = Null \/ (call.op = "find_intersects" /\ call.h2 = Null)
\* a u32 output holds the number a usize stands for
SameNumber(n, u) == u.hi = 0 /\ u.lo = n

\* C1: a status-returning entry point called with a null handle (find-intersects:
\* either handle null) returns 1, writes no output and changes no object.
C1_NullHandleReturnsOne ==
  (call.op \in StatusOps /\ NullCall) =>
    /\ call.ret = <<1>>
    /\ out = NoWrites
    /\ heap = pre

C1_Witness ==
  /\ call.op = "find_intersects"
  /\ call.h1 # Null
  /\ call.h2 = Null
  /\ call.ret = <<1>>

\* C2 as stated: every entry point, the release included, returns -1 exactly when its
\* computation faults, then with no output written and no object changed, and
\* otherwise returns 0, 1 or 2.
C2_EveryEntryPointBarrier ==
  call.op # "none" =>
    /\ call.fault => (call.ret = <<-1>> /\ out = NoWrites /\ heap = pre)
    /\ call.ret = <<-1>> => call.fault
    /\ ~call.fault => call.ret \in {<<0>>, <<1>>, <<2>>}

\* C2 amended: every status-returning entry point returns -1 exactly when its
\* computation faults, then with no output written and no object changed, and
\* otherwise returns 0, 1 or 2; the release returns no status and never faults.
C2_StatusEntryPointBarrier ==
  /\ call.op \in StatusOps =>
       /\ call.fault => (call.ret = <<-1>> /\ out = NoWrites /\ heap = pre)
       /\ call.ret = <<-1>> => call.fault
       /\ ~call.fault => call.ret \in {<<0>>, <<1>>, <<2>>}
  /\ call.op = "result_f" => (call.ret = << >> /\ ~call.fault /\ out = NoWrites)

C2_Witness ==
  /\ call.op = "find_intersects"
  /\ call.fault
  /\ call.ret = <<-1>>

\* C3: a start rotation on a non-null handle that does not fault returns 2 when the
\* polyline is open or the collaborator rejects the index and point; with any non-zero
\* status the heap is as before; with status 0 the cell at the same address holds the
\* rotated polyline, nothing else changed and no object was created.
C3_RotateStart ==
  (call.op = "rotate_start" /\ call.h1 # Null) =>
    /\ (~call.fault /\ ~pre[call.h1].pl.closed) => call.ret = <<2>>
    /\ call.collab = None => call.ret = <<2>>
    /\ call.ret # <<0>> => heap = pre
    /\ call.ret = <<0>> =>
         /\ call.collab.tag = "Some"
         /\ heap = [pre EXCEPT ![call.h1] = cavc_pline(call.collab.val)]
         /\ Live(heap) = Live(pre)
    /\ out = NoWrites

C3_Witness ==
  /\ call.op = "rotate_start"
  /\ call.ret = <<0>>
  /\ heap[call.h1] # pre[call.h1]

\* C4: an arc linearization of a non-null handle that does not fault returns 0 and
\* writes the address of a new polyline handle, which is not the input and was not
\* live before; when the collaborator reports nothing to change the new handle's
\* vertices equal the input's; every object that existed is unchanged.
C4_ArcsToApproxLines ==
  (call.op = "arcs_to_approx_lines" /\ call.h1 # Null /\ ~call.fault) =>
    /\ call.ret = <<0>>
    /\ Len(out) = 1
    /\ out[1][1] = "result"
    /\ LET a == out[1][2]
       IN  /\ a \in Addrs
           /\ a # call.h1
           /\ a \notin Live(pre)
           /\ heap[a].kind = "pline"
           /\ call.collab = None =>
                /\ heap[a].pl.verts = pre[call.h1].pl.verts
                /\ heap[a].pl.closed = pre[call.h1].pl.closed
           /\ \A b \in Addrs \ {a} : heap[b] = pre[b]

C4_Witness ==
  /\ call.op = "arcs_to_approx_lines"
  /\ call.ret = <<0>>
  /\ call.collab = None
  /\ Len(pre[call.h1].pl.verts) > 0

\* the count the count query reports for the sequence an indexed get reads
ReportedCount ==
  IF call.op = "get_basic"
  THEN cavc_intersects_result_get_basic_count(pre, call.h1).out[1][2]
  ELSE cavc_intersects_result_get_overlapping_count(pre, call.h1).out[1][2]

\* C5: an indexed get on a non-null result returns 2 and writes nothing exactly when
\* the index is at least the count the count query reports, and otherwise returns 0
\* and writes the record at that index.
C5_GetAgreesWithCount ==
  (call.op \in {"get_basic", "get_overlapping"} /\ call.h1 # Null) =>
    IF call.arg >= ReportedCount
    THEN call.ret = <<2>> /\ out = NoWrites
    ELSE call.ret = <<0>> /\ Written = {"intr"}

\* C6: a closest-point query on a non-null handle that does not fault returns 2 and
\* writes nothing when the polyline has no segment; otherwise it returns 0 and writes
\* the four outputs from the collaborator's result, or returns 2 and writes nothing
\* when the collaborator has no closest point.
C6_ClosestPoint ==
  (call.op = "closest_point" /\ call.h1 # Null /\ ~call.fault) =>
    IF segment_count(heap[call.h1].pl) = 0
    THEN call.ret = <<2>> /\ out = NoWrites
    ELSE /\ call.collab.tag \in {"Some", "None"}
         /\ call.collab.tag = "Some" =>
              /\ call.ret = <<0>>
              /\ out = << <<"seg_start_index", AsU32(call.collab.val.seg_start_index)>>,
                          <<"closest_x", call.collab.val.seg_point.x>>,
                          <<"closest_y", call.collab.val.seg_point.y>>,
                          <<"distance", call.collab.val.distance>> >>
         /\ call.collab.tag = "None" => (call.ret = <<2>> /\ out = NoWrites)

C6_Witness ==
  /\ call.op = "closest_point"
  /\ call.h1 # Null
  /\ vertex_count(heap[call.h1].pl) = 1
  /\ call.ret = <<2>>

\* C7: a path-length lookup on a non-null handle that does not fault returns 2 and
\* writes nothing when the polyline is empty or the target exceeds its path length;
\* for every other target it returns 0 and writes the segment index and the point.
C7_FindPointAtPathLength ==
  (call.op = "find_point_at_path_length" /\ call.h1 # Null /\ ~call.fault) =>
    LET p == heap[call.h1].pl
    IN  IF vertex_count(p) = 0 \/ call.arg > path_length(p)
        THEN call.ret = <<2>> /\ out = NoWrites
        ELSE /\ call.ret = <<0>>
             /\ call.collab.tag = "Ok"
             /\ out = << <<"seg_index", AsU32(call.collab.val.idx)>>,
                         <<"point_x", call.collab.val.point.x>>,
                         <<"point_y", call.collab.val.point.y>> >>

C7_Witness ==
  /\ call.op = "find_point_at_path_length"
  /\ call.h1 # Null
  /\ vertex_count(heap[call.h1].pl) > 1
  /\ call.arg > path_length(heap[call.h1].pl)
  /\ call.ret = <<2>>

\* C8: the record an indexed get copies out of a result of find-intersects(A, B) is
\* the crossing found at that position: start_index1 is its segment on A,
\* start_index2 its segment on B, and the coordinates are the crossing's.
C8_IntersectAttribution ==
  /\ (call.op = "get_basic" /\ call.ret = <<0>>) =>
       LET t == VecAt(origin[call.h1].basic, AsUsize(call.arg))
           r == out[1][2]
       IN  /\ SameNumber(r.start_index1, t.onA)
           /\ SameNumber(r.start_index2, t.onB)
           /\ r.point_x = t.p1.x
           /\ r.point_y = t.p1.y
  /\ (call.op = "get_overlapping" /\ call.ret = <<0>>) =>
       LET t == VecAt(origin[call.h1].overlapping, AsUsize(call.arg))
           r == out[1][2]
       IN  /\ SameNumber(r.start_index1, t.onA)
           /\ SameNumber(r.start_index2, t.onB)
           /\ r.point1_x = t.p1.x
           /\ r.point1_y = t.p1.y
           /\ r.point2_x = t.p2.x
           /\ r.point2_y = t.p2.y

C8_Witness ==
  /\ call.op = "get_basic"
  /\ call.ret = <<0>>
  /\ call.arg = 1
  /\ out[1][2].start_index1 # out[1][2].start_index2

\* C9: a polyline changes only by a start rotation of its own handle that returns 0,
\* a result never changes while it is live, and a count query or an indexed get on a
\* live result answers from the sequences as they were when the result was created.
C9_Frame ==
  /\ \A a \in Addrs :
       /\ (pre[a].kind = "pline" /\ heap[a] # pre[a]) =>
            (call.op = "rotate_start" /\ call.h1 = a /\ call.ret = <<0>>)
       /\ (pre[a].kind = "result" /\ heap[a] # pre[a]) =>
            (call.op = "result_f" /\ call.h1 = a /\ heap[a] = FreeCell)
       /\ heap[a].kind = "result" =>
            heap[a] = LET made == find_intersects_opt(TRUE, origin[a])
                      IN  cavc_intersects_result(made.basic_intersects,
                                                 made.overlapping_intersects)
  /\ (call.op = "get_basic_count" /\ call.ret = <<0>>) =>
       out = << <<"count", origin[call.h1].basic.len.lo>> >>
  /\ (call.op = "get_overlapping_count" /\ call.ret = <<0>>) =>
       out = << <<"count", origin[call.h1].overlapping.len.lo>> >>

C9_Witness ==
  /\ call.op = "get_overlapping_count"
  /\ call.ret = <<0>>
  /\ out[1][2] > 0
  /\ \E a \in Addrs : heap[a] = cavc_pline(Polyline(Cycle(LoopPline.verts, 1), TRUE))

\* C10: the live objects change only by a create call returning 0, which adds one
\* object at the address it writes, and by the release of a non-null result, which
\* removes that result; every other call leaves the live set and the
\* pointer-to-pointer output alone.
C10_LiveObjects ==
  call.op # "none" =>
    LET added == Live(heap) \ Live(pre)
        removed == Live(pre) \ Live(heap)
    IN  IF call.op \in CreateOps /\ call.ret = <<0>>
        THEN /\ removed = {}
             /\ out = << <<"result", out[1][2]>> >>
             /\ added = {out[1][2]}
        ELSE IF call.op = "result_f" /\ call.h1 # Null
        THEN added = {} /\ removed = {call.h1}
        ELSE /\ added = {}
             /\ removed = {}
             /\ "result" \notin Written
             /\ call.op = "result_f" => heap = pre

C10_Witness ==
  /\ call.op = "result_f"
  /\ call.h1 # Null
  /\ Live(pre) \ Live(heap) = {call.h1}

====
